---- MODULE Spec2Model ----
(***************************************************************************)
(* Model of the tail engine of src/app.js: the reverse line reader         *)
(* getLastNLines, the incremental reader getNewLines, the debounced        *)
(* fs.watch callback with its stat/read/broadcast cycle, and the WebSocket *)
(* subscribers with their catch-up read.                                   *)
(*                                                                         *)
(* A file is a sequence of bytes, an ASCII byte being written as its       *)
(* one-character string.  A line is a sequence of characters, a batch a    *)
(* sequence of lines.                                                      *)
(***************************************************************************)
EXTENDS Integers, Sequences, FiniteSets, TLC

VARIABLES
    file,             \* content of LOG_FILE_PATH
    lastFileSize,     \* src/app.js 11
    startup,          \* the initial fs.promises.stat: "pending" or "done"
    debounceTimeout,  \* src/app.js 14: handle of the last timer set, 0 if none
    timers,           \* handles of the timers that are set and have not fired
    cyc,              \* the debounce callbacks in flight
    status,           \* per subscriber: "none" (yet to connect), "open", "gone",
                      \* "closed", or "away" (does not connect in this run)
    clients,          \* wss.clients, in insertion order
    rd,               \* per subscriber: its getLastNLines call
    inbox,            \* per subscriber: the messages it has received
    burstNotifs,      \* history: change notifications of the current burst
    burstCycles,      \* history: debounce callbacks the current burst started
    fires,            \* history: timer fires so far
    bc,               \* history: outcome of the last broadcast loop
    call              \* a reader called on its own on a fixed file

vars == <<file, lastFileSize, startup, debounceTimeout, timers, cyc, status,
          clients, rd, inbox, burstNotifs, burstCycles, fires, bc, call>>

engineVars == <<file, lastFileSize, startup, debounceTimeout, timers, cyc,
                status, clients, rd, inbox, burstNotifs, burstCycles, fires, bc>>

NL == "\n"

\* bytes a producer may append in the engine model, and bytes of the files
\* the two readers are exercised on
EngineChars == {"a", NL}
ReaderChars == {"a", "b", " ", NL}

\* ---- bounds of the model ----
MaxFile == 3        \* longest file of the engine model (bytes)
MaxSubs == 2        \* subscribers that may connect
MaxCycles == 2      \* debounce callbacks that may be in flight together
MaxNotifs == 2      \* change notifications counted within one burst
MaxFires == 2       \* timer fires in one run
MaxLen == 4         \* longest file the readers are exercised on (bytes)
MaxN == 3           \* largest line count asked of getLastNLines
MaxChunk == 3       \* largest scaled-down chunk size of getLastNLines

\* ---- program constants ----
bufferSize == 1024
CatchUpLines == 10

Min(a, b) == IF a < b THEN a ELSE b

RECURSIVE SeqsUpTo(_, _)
SeqsUpTo(S, k) ==
    IF k = 0 THEN {<<>>}
    ELSE LET shorter == SeqsUpTo(S, k - 1)
         IN shorter \cup {Append(s, c) : s \in shorter, c \in S}

(***************************************************************************)
(* JavaScript string and array primitives used by the code.                *)
(***************************************************************************)

\* String.prototype.split('\n'): the pieces between the newlines, always at
\* least one
split(s) ==
    LET nl == {i \in 1..Len(s) : s[i] = NL}
        count == Cardinality(nl)
        cut(k) == IF k = 0 THEN 0
                  ELSE IF k = count + 1 THEN Len(s) + 1
                  ELSE CHOOSE i \in nl : Cardinality({j \in nl : j < i}) = k - 1
    IN [k \in 1..(count + 1) |-> SubSeq(s, cut(k - 1) + 1, cut(k) - 1)]

\* line.trim() is the empty (falsy) string
trimIsEmpty(line) == \A i \in 1..Len(line) : line[i] \in {" ", NL}

\* Array.prototype.slice(-n): slice(-0) is slice(0), the whole array
sliceLast(lines, n) ==
    IF n = 0 \/ Len(lines) <= n THEN lines
    ELSE SubSeq(lines, Len(lines) - n + 1, Len(lines))

\* fs.read(fd, buffer, 0, length, start): the bytes of F in [start, start+length)
fsRead(F, start, length) ==
    SubSeq(F, start + 1, Min(Len(F), start + length))

\* Bytes outside ASCII: the two bytes of one two-byte UTF-8 sequence, the
\* character they encode, and the replacement character U+FFFD
LeadByte == "C3"
ContByte == "A9"
TwoByteChar == "U+00E9"
ReplacementChar == "U+FFFD"

\* buffer.toString('utf-8', 0, bytesRead) (73): an ASCII byte is its
\* character, a lead byte followed by its continuation is one character, and
\* a lead byte or a continuation byte on its own is U+FFFD
toString(bytes) ==
    LET dec(i) ==
            IF bytes[i] = LeadByte
            THEN IF i < Len(bytes) /\ bytes[i + 1] = ContByte
                 THEN TwoByteChar ELSE ReplacementChar
            ELSE IF bytes[i] = ContByte
            THEN IF i > 1 /\ bytes[i - 1] = LeadByte
                 THEN "" ELSE ReplacementChar
            ELSE bytes[i]
    IN SelectSeq([i \in 1..Len(bytes) |-> dec(i)], LAMBDA ch : ch # "")

(***************************************************************************)
(* getLastNLines (src/app.js 27-94) as a step machine.  A reader is        *)
(*   pc       "open" (fs.open pending), "fstat" (fs.fstat pending),        *)
(*            "read" (fs.read pending), "done" (promise settled)           *)
(*   fileSize, position, leftover, lines   the closure variables           *)
(*   out      how the promise settled: "lines" with res, or "error"        *)
(*   fd       "none", "open", "closed";  closes counts fs.close calls      *)
(***************************************************************************)
NoReader ==
    [pc |-> "idle", fileSize |-> -1, position |-> 0, leftover |-> <<>>, lines |-> <<>>,
     out |-> "none", res |-> <<>>, fd |-> "none", closes |-> 0]

\* the promise is created and fs.open is issued
getLastNLines == [NoReader EXCEPT !.pc = "open"]

settle(r, out, res) ==
    [r EXCEPT !.pc = "done", !.out = out, !.res = res,
               !.position = 0, !.leftover = <<>>, !.lines = <<>>]

fsClose(r) == [r EXCEPT !.fd = "closed", !.closes = @ + 1]

\* callback of fs.open (30-31)
openDone(r, ok) ==
    IF ok THEN [r EXCEPT !.pc = "fstat", !.fd = "open"]
    ELSE settle(r, "error", <<>>)

\* readChunk up to the point where it returns or issues fs.read (51-66)
readChunk(r, n, bufSize) ==
    LET bytesToRead == Min(r.position, bufSize)
    IN IF bytesToRead <= 0
       THEN LET lines == IF r.leftover # <<>>
                         THEN <<r.leftover>> \o r.lines ELSE r.lines
            IN settle(fsClose(r), "lines", sliceLast(lines, n))
       ELSE [r EXCEPT !.pc = "read"]

\* an fs.fstat callback that rejects without closing the file
fstatDoneLeaks(r, F, n, bufSize, ok) ==
    IF ok THEN readChunk([r EXCEPT !.fileSize = Len(F), !.position = Len(F)],
                         n, bufSize)
    ELSE settle(r, "error", <<>>)

\* callback of fs.fstat (40-48, 90)
fstatDone(r, F, n, bufSize, ok) ==
    IF ok THEN readChunk([r EXCEPT !.fileSize = Len(F), !.position = Len(F)],
                         n, bufSize)
    ELSE settle(fsClose(r), "error", <<>>)

\* callback of fs.read (66-88)
readDone(r, F, n, bufSize, ok) ==
    IF ~ok THEN settle(fsClose(r), "error", <<>>)
    ELSE LET bytesToRead == Min(r.position, bufSize)
             start == r.position - bytesToRead
             bytes == fsRead(F, start, bytesToRead)
             bytesRead == Len(bytes)
             chunk == toString(bytes)
             chunkLines == split(chunk \o r.leftover)
             lines == Tail(chunkLines) \o r.lines
         IN IF Len(lines) >= n
            THEN settle(fsClose(r), "lines", sliceLast(lines, n))
            ELSE readChunk([r EXCEPT !.position = @ - bytesRead,
                                      !.leftover = Head(chunkLines),
                                      !.lines = lines], n, bufSize)

(***************************************************************************)
(* getNewLines (src/app.js 97-119): the stream reads from fromPosition to  *)
(* the end of the file as it is when the stream reads it.                  *)
(***************************************************************************)
streamData(F, fromPosition) == SubSeq(F, fromPosition + 1, Len(F))

getNewLines(data) == SelectSeq(split(data), LAMBDA line : ~trimIsEmpty(line))

(***************************************************************************)
(* The engine: file, watcher, debounce timer, read cycles, subscribers.    *)
(***************************************************************************)
Subs == 1..MaxSubs
Cycles == 1..MaxCycles

NoCall == [fn |-> "none"]
NoCycle == [pc |-> "idle", size |-> 0, from |-> 0, data |-> <<>>]
NoBroadcast == [ok |-> {}, failed |-> {}, closed |-> {}]

LinesMsg(via, lines) == [kind |-> "lines", via |-> via, lines |-> lines]
ErrorMsg == [kind |-> "error", via |-> "catchup", lines |-> <<>>]

\* client.readyState === WebSocket.OPEN: a socket whose peer is gone still
\* reads OPEN until its 'close' event is handled
readyStateOpen(s) == status[s] \in {"open", "gone"}

\* ws.send: the message reaches the subscriber only over a live connection;
\* a failed send raises nothing in the caller
wsSend(ib, s, msg) ==
    IF status[s] = "open" THEN [ib EXCEPT ![s] = Append(@, msg)] ELSE ib

\* a loop that a failed send ends
RECURSIVE forEachClientAborts(_, _, _)
forEachClientAborts(cs, ib, msg) ==
    IF cs = <<>> \/ status[Head(cs)] = "gone" THEN ib
    ELSE forEachClientAborts(Tail(cs),
                             IF readyStateOpen(Head(cs))
                             THEN wsSend(ib, Head(cs), msg) ELSE ib,
                             msg)

\* a loop that sends to the first client only
forEachClientFirst(cs, ib, msg) ==
    IF cs = <<>> \/ ~readyStateOpen(Head(cs)) THEN ib
    ELSE wsSend(ib, Head(cs), msg)

\* wss.clients.forEach of the broadcast (159-163)
RECURSIVE forEachClient(_, _, _)
forEachClient(cs, ib, msg) ==
    IF cs = <<>> THEN ib
    ELSE forEachClient(Tail(cs),
                       IF readyStateOpen(Head(cs))
                       THEN wsSend(ib, Head(cs), msg) ELSE ib,
                       msg)

\* the engine as constructed, its initial stat pending.
\* files: what LOG_FILE_PATH may hold when the engine starts;
\* observers: the subscribers that may connect in the run
EngineInit(files, observers) ==
    /\ file \in files
    /\ lastFileSize = 0
    /\ startup = "pending"
    /\ debounceTimeout = 0
    /\ timers = {}
    /\ cyc = [c \in Cycles |-> NoCycle]
    /\ status = [s \in Subs |-> IF s \in observers THEN "none" ELSE "away"]
    /\ clients = <<>>
    /\ rd = [s \in Subs |-> NoReader]
    /\ inbox = [s \in Subs |-> <<>>]
    /\ burstNotifs = 0
    /\ burstCycles = 0
    /\ fires = 0
    /\ bc = NoBroadcast

\* the engine once its initial stat has settled and recorded the file's size,
\* before any change notification
EngineRunning(files, observers) ==
    /\ file \in files
    /\ lastFileSize = Len(file)
    /\ startup = "done"
    /\ debounceTimeout = 0
    /\ timers = {}
    /\ cyc = [c \in Cycles |-> NoCycle]
    /\ status = [s \in Subs |-> IF s \in observers THEN "none" ELSE "away"]
    /\ clients = <<>>
    /\ rd = [s \in Subs |-> NoReader]
    /\ inbox = [s \in Subs |-> <<>>]
    /\ burstNotifs = 0
    /\ burstCycles = 0
    /\ fires = 0
    /\ bc = NoBroadcast

\* the producer appends one byte
Append1(ch) ==
    /\ Len(file) < MaxFile
    /\ file' = Append(file, ch)
    /\ UNCHANGED <<lastFileSize, startup, debounceTimeout, timers, cyc, status,
                   clients, rd, inbox, burstNotifs, burstCycles, fires, bc, call>>

\* the initial stat settles (173-180)
StartupStat(ok) ==
    /\ startup = "pending"
    /\ startup' = "done"
    /\ lastFileSize' = IF ok THEN Len(file) ELSE 0
    /\ UNCHANGED <<file, debounceTimeout, timers, cyc, status, clients, rd,
                   inbox, burstNotifs, burstCycles, fires, bc, call>>

\* a clearTimeout that leaves the pending timer set
clearTimeoutKeeps(ts, handle) == ts

\* clearTimeout (150): a handle that has fired or was never set clears nothing
clearTimeout(ts, handle) == ts \ {handle}

\* setTimeout (151): a handle no pending timer has
setTimeout(ts) ==
    CHOOSE t \in 1..(Cardinality(ts) + 1) :
        t \notin ts /\ \A u \in 1..(t - 1) : u \in ts

\* fs.watch callback (147-170)
Watch(eventType) ==
    /\ burstCycles = 0 => burstNotifs < MaxNotifs
    /\ IF eventType = "change"
       THEN LET cleared == clearTimeout(timers, debounceTimeout)
            IN /\ debounceTimeout' = setTimeout(cleared)
               /\ timers' = cleared \cup {debounceTimeout'}
               /\ burstNotifs' = IF burstCycles = 0 THEN burstNotifs + 1 ELSE 1
               /\ burstCycles' = 0
       ELSE UNCHANGED <<timers, debounceTimeout, burstNotifs, burstCycles>>
    /\ UNCHANGED <<file, lastFileSize, startup, cyc, status, clients, rd,
                   inbox, fires, bc, call>>

\* a timer fires: the debounce callback starts and awaits its stat (151-153)
Fire(t, c) ==
    /\ t \in timers
    /\ fires < MaxFires
    /\ fires' = fires + 1
    /\ cyc[c].pc = "idle"
    /\ \A d \in Cycles : d < c => cyc[d].pc # "idle"
    /\ timers' = timers \ {t}
    /\ cyc' = [cyc EXCEPT ![c] = [NoCycle EXCEPT !.pc = "stat"]]
    /\ burstCycles' = burstCycles + 1
    /\ UNCHANGED <<file, lastFileSize, startup, debounceTimeout, status,
                   clients, rd, inbox, burstNotifs, bc, call>>

\* the stat settles; on growth getNewLines opens its stream (153-155, 100-103)
statDone(size, ok) ==
    IF ok /\ size > lastFileSize
    THEN [pc |-> "read", size |-> size, from |-> lastFileSize, data |-> <<>>]
    ELSE NoCycle

\* a callback whose failed stat resets the offset
CycleStatResets(c, ok) ==
    /\ cyc[c].pc = "stat"
    /\ cyc' = [cyc EXCEPT ![c] = statDone(Len(file), ok)]
    /\ lastFileSize' = IF ok THEN lastFileSize ELSE 0
    /\ UNCHANGED <<file, startup, debounceTimeout, timers, status,
                   clients, rd, inbox, burstNotifs, burstCycles, fires, bc, call>>

CycleStat(c, ok) ==
    /\ cyc[c].pc = "stat"
    /\ cyc' = [cyc EXCEPT ![c] = statDone(Len(file), ok)]
    /\ UNCHANGED <<file, lastFileSize, startup, debounceTimeout, timers, status,
                   clients, rd, inbox, burstNotifs, burstCycles, fires, bc, call>>

\* the stream reads to the end of the file, or fails (108, 117)
CycleRead(c, ok) ==
    /\ cyc[c].pc = "read"
    /\ cyc' = [cyc EXCEPT ![c] =
                 IF ok THEN [@ EXCEPT !.pc = "end",
                                      !.data = streamData(file, cyc[c].from)]
                 ELSE NoCycle]
    /\ UNCHANGED <<file, lastFileSize, startup, debounceTimeout, timers, status,
                   clients, rd, inbox, burstNotifs, burstCycles, fires, bc, call>>

\* the message of one broadcast (161)
broadcastMsg(newLines) == LinesMsg("broadcast", newLines)

\* the stream ends: getNewLines resolves, the callback records the size and
\* broadcasts (111-113, 155-163)
CycleEnd(c) ==
    /\ cyc[c].pc = "end"
    /\ LET newLines == getNewLines(cyc[c].data)
       IN /\ lastFileSize' = cyc[c].size
          /\ inbox' = forEachClient(clients, inbox, broadcastMsg(newLines))
          /\ bc' = [ok |-> {s \in Subs : status[s] = "open"},
                    failed |-> {s \in Subs : status[s] = "gone"},
                    closed |-> {s \in Subs : status[s] = "closed"}]
    /\ cyc' = [cyc EXCEPT ![c] = NoCycle]
    /\ UNCHANGED <<file, startup, debounceTimeout, timers, status, clients, rd,
                   burstNotifs, burstCycles, fires, call>>

\* a handler that answers every settled read with a batch
catchUpMsgLines(r) == LinesMsg("catchup", r.res)

\* .then / .catch of the connection handler (132-138)
catchUpMsg(r) ==
    IF r.out = "lines" THEN LinesMsg("catchup", r.res) ELSE ErrorMsg

\* a handler that sends the catch-up message to every client
catchUpStepToAll(s, r) ==
    /\ rd' = [rd EXCEPT ![s] = r]
    /\ inbox' = IF r.pc = "done"
                THEN forEachClient(clients, inbox, catchUpMsg(r)) ELSE inbox
    /\ UNCHANGED <<file, lastFileSize, startup, debounceTimeout, timers, cyc,
                   status, clients, burstNotifs, burstCycles, fires, bc, call>>

\* one step of a subscriber's getLastNLines, and the send once it settles
catchUpStep(s, r) ==
    /\ rd' = [rd EXCEPT ![s] = r]
    /\ inbox' = IF r.pc = "done" THEN wsSend(inbox, s, catchUpMsg(r)) ELSE inbox
    /\ UNCHANGED <<file, lastFileSize, startup, debounceTimeout, timers, cyc,
                   status, clients, burstNotifs, burstCycles, fires, bc, call>>

\* wss.on('connection') (127-131)
Connect(s) ==
    /\ status[s] = "none"
    /\ \A t \in Subs : t < s => status[t] # "none"
    /\ status' = [status EXCEPT ![s] = "open"]
    /\ clients' = Append(clients, s)
    /\ rd' = [rd EXCEPT ![s] = getLastNLines]
    /\ UNCHANGED <<file, lastFileSize, startup, debounceTimeout, timers, cyc,
                   inbox, burstNotifs, burstCycles, fires, bc, call>>

CatchOpen(s, ok) ==
    /\ rd[s].pc = "open"
    /\ catchUpStep(s, openDone(rd[s], ok))

CatchFstat(s, ok) ==
    /\ rd[s].pc = "fstat"
    /\ catchUpStep(s, fstatDone(rd[s], file, CatchUpLines, bufferSize, ok))

CatchRead(s, ok) ==
    /\ rd[s].pc = "read"
    /\ catchUpStep(s, readDone(rd[s], file, CatchUpLines, bufferSize, ok))

\* the subscriber's connection dies; its 'close' event is still to come
ClientGone(s) ==
    /\ status[s] = "open"
    /\ status' = [status EXCEPT ![s] = "gone"]
    /\ UNCHANGED <<file, lastFileSize, startup, debounceTimeout, timers, cyc,
                   clients, rd, inbox, burstNotifs, burstCycles, fires, bc, call>>

\* 'close': the server drops the subscriber from wss.clients (141-143)
ClientClose(s) ==
    /\ status[s] \in {"open", "gone"}
    /\ status' = [status EXCEPT ![s] = "closed"]
    /\ clients' = SelectSeq(clients, LAMBDA x : x # s)
    /\ UNCHANGED <<file, lastFileSize, startup, debounceTimeout, timers, cyc,
                   rd, inbox, burstNotifs, burstCycles, fires, bc, call>>

\* the steps of the engine; oks are the outcomes the file operations may have
\* (TRUE: success, FALSE: failure)
Producer == \E ch \in EngineChars : Append1(ch)

Watcher(oks) ==
    \/ \E eventType \in {"change", "rename"} : Watch(eventType)
    \/ \E t \in timers, c \in Cycles : Fire(t, c)
    \/ \E c \in Cycles, ok \in oks : CycleStat(c, ok)
    \/ \E c \in Cycles, ok \in oks : CycleRead(c, ok)
    \/ \E c \in Cycles : CycleEnd(c)

Hub(oks) ==
    \/ \E s \in Subs : Connect(s)
    \/ \E s \in Subs, ok \in oks : CatchOpen(s, ok)
    \/ \E s \in Subs, ok \in oks : CatchFstat(s, ok)
    \/ \E s \in Subs, ok \in oks : CatchRead(s, ok)
    \/ \E s \in Subs : ClientGone(s)
    \/ \E s \in Subs : ClientClose(s)

\* the running engine, watched by one subscriber
Init == EngineRunning({<<>>, <<"a", NL>>}, {1}) /\ call = NoCall

Next ==
    \/ Producer
    \/ Watcher(BOOLEAN)
    \/ Hub(BOOLEAN)

Spec == Init /\ [][Next]_vars

\* the engine from its construction on, with no subscriber connecting
DebounceInit == EngineInit({<<>>, <<"a", NL>>}, {}) /\ call = NoCall

DebounceNext ==
    \/ Producer
    \/ \E ok \in BOOLEAN : StartupStat(ok)
    \/ Watcher(BOOLEAN)

SpecDebounce == DebounceInit /\ [][DebounceNext]_vars

\* the hub at the moment every debounce callback in flight has read the line
\* the producer appended to an empty file, with every subscriber still to
\* connect and no failing file operation
HubInit ==
    /\ file = <<"a", NL>>
    /\ lastFileSize = 0
    /\ startup = "done"
    /\ debounceTimeout = 1
    /\ timers = {}
    /\ cyc = [c \in Cycles |->
                [pc |-> "end", size |-> 2, from |-> 0, data |-> <<"a", NL>>]]
    /\ status = [s \in Subs |-> "none"]
    /\ clients = <<>>
    /\ rd = [s \in Subs |-> NoReader]
    /\ inbox = [s \in Subs |-> <<>>]
    /\ burstNotifs = 1
    /\ burstCycles = 1
    /\ fires = MaxCycles
    /\ bc = NoBroadcast
    /\ call = NoCall

HubNext ==
    \/ \E c \in Cycles : CycleEnd(c)
    \/ Hub({TRUE})

SpecHub == HubInit /\ [][HubNext]_vars

(***************************************************************************)
(* getLastNLines called on its own on a file nobody writes to.             *)
(***************************************************************************)
\* the engine stays as constructed, with nobody connecting
EngineOff == EngineInit({<<>>}, {})

\* line i of the preloaded file: i written with four letters, most
\* significant first ("a" for 0, "b" for 1)
Letter(bit) == IF bit = 1 THEN "b" ELSE "a"
PreloadedLine(i) ==
    <<Letter((i \div 8) % 2), Letter((i \div 4) % 2),
      Letter((i \div 2) % 2), Letter(i % 2)>>

\* lines from..to, each terminated by a newline
RECURSIVE Preloaded(_, _)
Preloaded(from, to) ==
    IF from > to THEN <<>>
    ELSE PreloadedLine(from) \o <<NL>> \o Preloaded(from + 1, to)

ReaderFiles == SeqsUpTo(ReaderChars, MaxLen)
ChunkSizes == (1..MaxChunk) \cup {bufferSize}

ReaderInit ==
    /\ EngineOff
    /\ \E F \in ReaderFiles, n \in 0..MaxN, size \in ChunkSizes :
          call = [fn |-> "getLastNLines", F |-> F, n |-> n, bufSize |-> size,
                  r |-> getLastNLines]

ReaderOpen(ok) ==
    /\ call.fn = "getLastNLines"
    /\ call.r.pc = "open"
    /\ call' = [call EXCEPT !.r = openDone(@, ok)]
    /\ UNCHANGED engineVars

ReaderFstat(ok) ==
    /\ call.fn = "getLastNLines"
    /\ call.r.pc = "fstat"
    /\ call' = [call EXCEPT !.r = fstatDone(@, call.F, call.n, call.bufSize, ok)]
    /\ UNCHANGED engineVars

ReaderRead(ok) ==
    /\ call.fn = "getLastNLines"
    /\ call.r.pc = "read"
    /\ call' = [call EXCEPT !.r = readDone(@, call.F, call.n, call.bufSize, ok)]
    /\ UNCHANGED engineVars

ReaderNext ==
    \/ \E ok \in BOOLEAN : ReaderOpen(ok)
    \/ \E ok \in BOOLEAN : ReaderFstat(ok)
    \/ \E ok \in BOOLEAN : ReaderRead(ok)

SpecReader == ReaderInit /\ [][ReaderNext]_vars

\* the lines of F: the pieces between newlines, a newline ending the line
\* before it (an empty file has no line)
RefLines(F) ==
    LET pieces == split(F)
    IN IF pieces[Len(pieces)] = <<>>
       THEN SubSeq(pieces, 1, Len(pieces) - 1) ELSE pieces

\* the last min(n, Len(lines)) of lines
LastLines(lines, n) ==
    SubSeq(lines, Len(lines) - Min(n, Len(lines)) + 1, Len(lines))

ReaderResolved ==
    call.fn = "getLastNLines" /\ call.r.pc = "done" /\ call.r.out = "lines"

\* C2: whenever getLastNLines(F, n) resolves, its result is the last
\* min(n, totalLines(F)) lines of F in file order, blank lines included, the
\* lines being those of a full-scan split on the newline (with or without
\* the empty piece a split leaves after a final newline).
C2_LastNLines ==
    ReaderResolved =>
        \/ call.r.res = LastLines(RefLines(call.F), call.n)
        \/ call.r.res = LastLines(split(call.F), call.n)

(***************************************************************************)
(* getNewLines called by one read cycle: the file holds F and the recorded  *)
(* offset is its size o; the producer appends C once, and nothing else.    *)
(***************************************************************************)
TailInit ==
    /\ \E F \in ReaderFiles, C \in ReaderFiles \ {<<>>} :
          /\ Len(F) + Len(C) <= MaxLen
          /\ EngineInit({F}, {})
          /\ call = [fn |-> "getNewLines", F |-> F, o |-> Len(F), C |-> C,
                     pc |-> "append", cy |-> NoCycle, lines |-> <<>>]

\* the initial stat has recorded o
TailStartup ==
    /\ call.fn = "getNewLines"
    /\ StartupStat(TRUE)

TailAppend ==
    /\ call.fn = "getNewLines" /\ call.pc = "append" /\ startup = "done"
    /\ file' = file \o call.C
    /\ call' = [call EXCEPT !.pc = "stat"]
    /\ UNCHANGED <<lastFileSize, startup, debounceTimeout, timers, cyc, status,
                   clients, rd, inbox, burstNotifs, burstCycles, fires, bc>>

TailStat ==
    /\ call.fn = "getNewLines" /\ call.pc = "stat"
    /\ call' = [call EXCEPT !.cy = statDone(Len(file), TRUE), !.pc = "read"]
    /\ UNCHANGED engineVars

TailRead ==
    /\ call.fn = "getNewLines" /\ call.pc = "read" /\ call.cy.pc = "read"
    /\ call' = [call EXCEPT !.cy.data = streamData(file, call.cy.from),
                            !.cy.pc = "end", !.pc = "end"]
    /\ UNCHANGED engineVars

TailEnd ==
    /\ call.fn = "getNewLines" /\ call.pc = "end"
    /\ call' = [call EXCEPT !.lines = getNewLines(call.cy.data), !.pc = "done"]
    /\ lastFileSize' = call.cy.size
    /\ UNCHANGED <<file, startup, debounceTimeout, timers, cyc, status,
                   clients, rd, inbox, burstNotifs, burstCycles, fires, bc>>

TailNext == TailStartup \/ TailAppend \/ TailStat \/ TailRead \/ TailEnd

SpecTail == TailInit /\ [][TailNext]_vars

\* the non-blank lines of F \o C that lie in C: the pieces of C between
\* newlines, without the first when it continues the last line of F, and
\* with or without (countLast) the piece after the last newline of C
ContainedLines(F, C, countLast) ==
    LET pieces == split(C)
        kept == IF countLast THEN pieces ELSE SubSeq(pieces, 1, Len(pieces) - 1)
        midLine == F # <<>> /\ F[Len(F)] # NL
        whole == IF midLine /\ kept # <<>> THEN Tail(kept) ELSE kept
    IN SelectSeq(whole, LAMBDA line : \E i \in 1..Len(line) : line[i] # " ")

\* C6: getNewLines(F, o), after C was appended at offset o, returns exactly
\* the non-blank lines fully contained in C, in file order (whether or not a
\* final run that no newline ends yet counts as a line), and the offset
\* recorded afterwards is at least o.
C6_NewLines ==
    call.fn = "getNewLines" =>
        /\ lastFileSize >= 0
        /\ startup = "done" => lastFileSize >= call.o
        /\ call.pc = "done" =>
              \/ call.lines = ContainedLines(call.F, call.C, FALSE)
              \/ call.lines = ContainedLines(call.F, call.C, TRUE)

(***************************************************************************)
(* The engine started on a file preloaded with 15 lines.                   *)
(***************************************************************************)
PreloadInit == EngineInit({Preloaded(1, 15)}, Subs) /\ call = NoCall

PreloadNext ==
    \/ \E ok \in BOOLEAN : StartupStat(ok)
    \/ Hub(BOOLEAN)

SpecPreload == PreloadInit /\ [][PreloadNext]_vars

\* C3: with 15 newline-terminated lines in the file before the engine starts,
\* a catch-up batch sent to a subscriber holds exactly lines 6 to 15, in order.
C3_CatchUpLast10 ==
    \A s \in Subs : \A i \in 1..Len(inbox[s]) :
        (inbox[s][i].via = "catchup" /\ inbox[s][i].kind = "lines")
            => inbox[s][i].lines = [k \in 1..10 |-> PreloadedLine(k + 5)]

(***************************************************************************)
(* Claims about the running engine.                                        *)
(***************************************************************************)
RECURSIVE IsSubsequence(_, _)
IsSubsequence(a, b) ==
    IF a = <<>> THEN TRUE
    ELSE IF b = <<>> THEN FALSE
    ELSE IF Head(a) = Head(b) THEN IsSubsequence(Tail(a), Tail(b))
    ELSE IsSubsequence(a, Tail(b))

\* the lines of the broadcast batches among msgs, concatenated
RECURSIVE BroadcastLines(_)
BroadcastLines(msgs) ==
    IF msgs = <<>> THEN <<>>
    ELSE (IF Head(msgs).via = "broadcast" THEN Head(msgs).lines ELSE <<>>)
         \o BroadcastLines(Tail(msgs))

\* C1: for a subscriber whose catch-up read has taken its snapshot (the size
\* its fstat saw), the broadcast batches it has received, concatenated, are a
\* subsequence in file order of the lines appended after that snapshot.
C1_BroadcastStream ==
    \A s \in Subs :
        rd[s].fileSize >= 0 =>
            IsSubsequence(BroadcastLines(inbox[s]),
                          split(streamData(file, rd[s].fileSize)))

\* C4: the first message a subscriber receives is its catch-up message.
C4_CatchUpFirst ==
    \A s \in Subs : inbox[s] # <<>> => inbox[s][1].via = "catchup"

\* the step in which debounce callback c resolves its read and broadcasts
BroadcastStep(c) == cyc[c].pc = "end" /\ cyc'[c].pc = "idle"

\* the pieces of data that a newline terminates
CompleteLines(data) == SubSeq(split(data), 1, Len(split(data)) - 1)

NonBlank(lines) == SelectSeq(lines, LAMBDA line : \E i \in 1..Len(line) : line[i] # " ")

\* C5: the batch a read cycle sends holds only the non-blank lines of its
\* delta that a newline terminates: the fragment after the last newline is
\* not part of it.
C5_NoIncompleteLine ==
    [][\A c \in Cycles : \A s \in Subs :
          (BroadcastStep(c) /\ Len(inbox'[s]) > Len(inbox[s]))
              => inbox'[s][Len(inbox'[s])].lines = NonBlank(CompleteLines(cyc[c].data))]_vars

\* C7: no subscriber receives an empty batch from a broadcast.
C7_NoEmptyBroadcast ==
    \A s \in Subs : \A i \in 1..Len(inbox[s]) :
        inbox[s][i].via = "broadcast" => inbox[s][i].lines # <<>>

\* C8: in a broadcast in which the delivery to some subscriber fails, every
\* subscriber with a live open connection receives the batch, and the cycle
\* completes (it records the size it saw and ends).
C8_FailureIsolated ==
    [][\A c \in Cycles :
          (BroadcastStep(c) /\ \E g \in Subs : status[g] = "gone")
              => /\ \A s \in Subs : status[s] = "open" =>
                       inbox'[s] = Append(inbox[s],
                                          broadcastMsg(getNewLines(cyc[c].data)))
                 /\ lastFileSize' = cyc[c].size
                 /\ cyc'[c] = NoCycle]_vars

\* a broadcast was made while one delivery failed and another subscriber,
\* later in wss.clients, was open and received the batch
C8_Witness ==
    \E g \in bc.failed : \E s \in bc.ok :
        /\ g < s
        /\ \E i \in 1..Len(inbox[s]) : inbox[s][i].via = "broadcast"

\* C9: a broadcast adds its batch exactly once to the messages of each
\* subscriber that is open, and nothing to those of any other; a subscriber
\* that has disconnected receives nothing in any later step.
C9_FanOut ==
    [][/\ \A c \in Cycles : BroadcastStep(c) =>
             \A s \in Subs :
                 inbox'[s] = IF status[s] = "open"
                             THEN Append(inbox[s],
                                         broadcastMsg(getNewLines(cyc[c].data)))
                             ELSE inbox[s]
       /\ \A s \in Subs : status[s] = "closed" => inbox'[s] = inbox[s]]_vars

\* a broadcast was made after one subscriber had disconnected: that one has
\* no broadcast batch, an open one has the batch
C9_Witness ==
    /\ \E s \in bc.closed : \A i \in 1..Len(inbox[s]) : inbox[s][i].via # "broadcast"
    /\ \E s \in bc.ok : \E i \in 1..Len(inbox[s]) : inbox[s][i].via = "broadcast"

\* C10: at most one debounce timer is pending; the notifications of a burst
\* leave exactly one timer pending, and once it has fired the burst has
\* started exactly one debounce callback.
C10_Debounce ==
    /\ Cardinality(timers) <= 1
    /\ burstCycles <= 1
    /\ timers # {} => (burstNotifs >= 1 /\ burstCycles = 0)
    /\ (burstNotifs >= 1 /\ timers = {}) => burstCycles = 1

\* a burst of at least two notifications has fired and started one callback
C10_Witness ==
    burstNotifs >= 2 /\ burstCycles = 1 /\ timers = {}

(***************************************************************************)
(* No loss: the running engine with append-only writes, each reported by a *)
(* 'change' notification, no failing file operation, and subscribers that  *)
(* stay open.                                                              *)
(***************************************************************************)
\* the producer appends one byte and fs.watch reports the change (147-151)
AppendNotified(ch) ==
    /\ Len(file) < MaxFile
    /\ burstCycles = 0 => burstNotifs < MaxNotifs
    /\ file' = Append(file, ch)
    /\ LET cleared == clearTimeout(timers, debounceTimeout)
       IN /\ debounceTimeout' = setTimeout(cleared)
          /\ timers' = cleared \cup {debounceTimeout'}
    /\ burstNotifs' = IF burstCycles = 0 THEN burstNotifs + 1 ELSE 1
    /\ burstCycles' = 0
    /\ UNCHANGED <<lastFileSize, startup, cyc, status, clients, rd, inbox,
                   fires, bc, call>>

NoLossInit == EngineRunning({<<>>, <<"a", NL>>}, Subs) /\ call = NoCall

NoLossNext ==
    \/ \E ch \in EngineChars : AppendNotified(ch)
    \/ \E t \in timers, c \in Cycles : Fire(t, c)
    \/ \E c \in Cycles : CycleStat(c, TRUE)
    \/ \E c \in Cycles : CycleRead(c, TRUE)
    \/ \E c \in Cycles : CycleEnd(c)
    \/ \E s \in Subs : Connect(s)
    \/ \E s \in Subs : CatchOpen(s, TRUE)
    \/ \E s \in Subs : CatchFstat(s, TRUE)
    \/ \E s \in Subs : CatchRead(s, TRUE)

SpecNoLoss == NoLossInit /\ [][NoLossNext]_vars

\* no timer is pending and no debounce callback is in flight
Quiescent == timers = {} /\ \A c \in Cycles : cyc[c].pc = "idle"

\* the non-blank newline-terminated lines of F that begin at or after offset p
LinesAfter(F, p) ==
    LET rest == SubSeq(F, p + 1, Len(F))
        whole == CompleteLines(rest)
        midLine == p > 0 /\ F[p] # NL
    IN NonBlank(IF midLine /\ whole # <<>> THEN Tail(whole) ELSE whole)

\* every line some message of msgs carries
ReceivedLines(msgs) ==
    UNION {{msgs[i].lines[k] : k \in 1..Len(msgs[i].lines)} : i \in 1..Len(msgs)}

\* C11: once notifications have quiesced (no timer pending, no read cycle in
\* flight), an open subscriber whose catch-up batch has arrived has received,
\* in that batch or in a broadcast, every non-blank complete line appended
\* after its catch-up snapshot (hence after it connected).
C11_NoLoss ==
    \A s \in Subs :
        (Quiescent /\ status[s] = "open" /\ rd[s].pc = "done")
            => \A k \in 1..Len(LinesAfter(file, rd[s].fileSize)) :
                  LinesAfter(file, rd[s].fileSize)[k] \in ReceivedLines(inbox[s])

(***************************************************************************)
(* Claims about the catch-up of a subscriber.                              *)
(***************************************************************************)
\* the catch-up messages subscriber s has received
CatchUps(s) == SelectSeq(inbox[s], LAMBDA m : m.via = "catchup")

\* C12: a subscriber never holds more than one catch-up message; the one it
\* holds is the batch its read resolved with if the read succeeded and the
\* error payload if it failed; and the step in which the read of an open
\* subscriber settles delivers exactly that one message.
C12_OneCatchUp ==
    /\ [](\A s \in Subs :
            /\ Len(CatchUps(s)) <= 1
            /\ CatchUps(s) # <<>> =>
                  /\ rd[s].pc = "done"
                  /\ rd[s].out = "lines" =>
                        CatchUps(s)[1] = [kind |-> "lines", via |-> "catchup",
                                          lines |-> rd[s].res]
                  /\ rd[s].out = "error" =>
                        CatchUps(s)[1] = [kind |-> "error", via |-> "catchup",
                                          lines |-> <<>>])
    /\ [][\A s \in Subs :
            (rd[s].pc # "done" /\ rd'[s].pc = "done" /\ status[s] = "open")
                => /\ Len(inbox'[s]) = Len(inbox[s]) + 1
                   /\ inbox'[s][Len(inbox'[s])].via = "catchup"]_vars

\* one subscriber holds its batch, another the error payload of a failed read
C12_Witness ==
    \E s, t \in Subs :
        /\ CatchUps(s) # <<>> /\ CatchUps(s)[1].kind = "lines"
        /\ Len(CatchUps(s)[1].lines) = CatchUpLines
        /\ CatchUps(t) # <<>> /\ CatchUps(t)[1].kind = "error"

(***************************************************************************)
(* Truncation.  The producer had written TruncFile; the read cycle that    *)
(* recorded its size has ended, an older cycle that had seen only the      *)
(* first two bytes is still waiting for its stream, the producer has cut   *)
(* the file to one byte, and a later cycle has seen the shrunken file and  *)
(* done nothing.  Timer fires are counted from this state on.              *)
(***************************************************************************)
TruncFile == <<"a", "a", "a">>

TruncInit ==
    /\ file = SubSeq(TruncFile, 1, 1)
    /\ lastFileSize = Len(TruncFile)
    /\ startup = "done"
    /\ debounceTimeout = 1
    /\ timers = {}
    /\ cyc = [c \in Cycles |->
                IF c = 1 THEN [pc |-> "read", size |-> 2, from |-> 0, data |-> <<>>]
                ELSE NoCycle]
    /\ status = [s \in Subs |-> "away"]
    /\ clients = <<>>
    /\ rd = [s \in Subs |-> NoReader]
    /\ inbox = [s \in Subs |-> <<>>]
    /\ burstNotifs = 1
    /\ burstCycles = 1
    /\ fires = 0
    /\ bc = NoBroadcast
    /\ call = NoCall

\* the producer cuts the file down to its first k bytes
Truncate(k) ==
    /\ k < Len(file)
    /\ file' = SubSeq(file, 1, k)
    /\ UNCHANGED <<lastFileSize, startup, debounceTimeout, timers, cyc, status,
                   clients, rd, inbox, burstNotifs, burstCycles, fires, bc, call>>

TruncNext ==
    \/ Producer
    \/ \E k \in 0..MaxFile : Truncate(k)
    \/ Watcher(BOOLEAN)

SpecTrunc == TruncInit /\ [][TruncNext]_vars

\* C13: once the shrunken file has been observed, lastFileSize stays at or
\* above the offset it had then, and no stat that finds the file at or below
\* that offset starts an incremental read.
C13_TruncationQuiet ==
    /\ [](lastFileSize >= Len(TruncFile))
    /\ [][\A c \in Cycles :
            (cyc[c].pc = "stat" /\ Len(file) <= Len(TruncFile))
                => cyc'[c].pc # "read"]_vars

(***************************************************************************)
(* Engine start.  Loading app.js creates the server (121), registers the   *)
(* watcher (147) and issues the initial stat (173) in one synchronous run. *)
(* fs.watch throws ENOENT when the path does not exist; nothing catches    *)
(* it, so the process ends.                                                *)
(***************************************************************************)
StartInit ==
    /\ file \in {<<>>, <<"a", NL>>}
    /\ lastFileSize = 0
    /\ startup = "loading"
    /\ debounceTimeout = 0
    /\ timers = {}
    /\ cyc = [c \in Cycles |-> NoCycle]
    /\ status = [s \in Subs |-> "none"]
    /\ clients = <<>>
    /\ rd = [s \in Subs |-> NoReader]
    /\ inbox = [s \in Subs |-> <<>>]
    /\ burstNotifs = 0
    /\ burstCycles = 0
    /\ fires = 0
    /\ bc = NoBroadcast
    /\ call = NoCall

\* the module is loaded with LOG_FILE_PATH present or absent (an absent file
\* has no content)
Load(present) ==
    /\ startup = "loading"
    /\ ~present => file = <<>>
    /\ startup' = IF present THEN "pending" ELSE "crashed"
    /\ UNCHANGED <<file, lastFileSize, debounceTimeout, timers, cyc, status,
                   clients, rd, inbox, burstNotifs, burstCycles, fires, bc, call>>

\* the process is alive and past its synchronous start
Started == startup \in {"pending", "done"}

StartNext ==
    \/ \E present \in BOOLEAN : Load(present)
    \/ Started /\ \E ok \in BOOLEAN : StartupStat(ok)
    \/ Started /\ Hub(BOOLEAN)

SpecStart == StartInit /\ [][StartNext]_vars

\* C14: starting the engine is never fatal, also with the file absent: the
\* process stays alive, and once its initial stat has failed lastFileSize is 0.
C14_StartupNotFatal ==
    /\ startup # "crashed"
    /\ (startup = "done" /\ file = <<>>) => lastFileSize = 0

(***************************************************************************)
(* Claims about the read cycles and lastFileSize.                          *)
(***************************************************************************)
\* the debounce callbacks between their start and their return
InFlight == {c \in Cycles : cyc[c].pc # "idle"}

\* C15: at most one debounce callback is in flight at any time, so no two
\* of them read from the same lastFileSize.
C15_OneCycle ==
    /\ Cardinality(InFlight) <= 1
    /\ \A c, d \in Cycles :
          (c # d /\ cyc[c].pc \in {"read", "end"} /\ cyc[d].pc \in {"read", "end"})
              => cyc[c].from # cyc[d].from

\* C16: with a producer that only appends, no step lowers lastFileSize.
C16_OffsetMonotonic == [][lastFileSize' >= lastFileSize]_vars

\* C17: when a read cycle completes, the offset it records is the offset it
\* read from plus the number of bytes its read consumed: the batch is made
\* of the bytes below the new offset.
C17_OffsetMatchesRead ==
    [][\A c \in Cycles :
          BroadcastStep(c) => lastFileSize' = cyc[c].from + Len(cyc[c].data)]_vars

(***************************************************************************)
(* Failing read cycles.  The engine started on the file "a\n"; the         *)
(* producer has appended one byte and stopped, and the change has been     *)
(* notified: its debounce timer is pending.  As the file stays longer than *)
(* lastFileSize until a cycle records its size, a cycle that ends before   *)
(* that has failed.                                                        *)
(***************************************************************************)
RetryInit ==
    /\ file = <<"a", NL, "a">>
    /\ lastFileSize = 2
    /\ startup = "done"
    /\ debounceTimeout = 1
    /\ timers = {1}
    /\ cyc = [c \in Cycles |-> NoCycle]
    /\ status = [s \in Subs |-> IF s = 1 THEN "none" ELSE "away"]
    /\ clients = <<>>
    /\ rd = [s \in Subs |-> NoReader]
    /\ inbox = [s \in Subs |-> <<>>]
    /\ burstNotifs = 1
    /\ burstCycles = 0
    /\ fires = 0
    /\ bc = NoBroadcast
    /\ call = NoCall

RetryNext ==
    \/ Watcher(BOOLEAN)
    \/ Hub({TRUE})

SpecRetry == RetryInit /\ [][RetryNext]_vars

\* C18: the step in which a debounce callback ends at its stat or at its
\* read (a failure, or a stat that finds no growth) sends nothing, leaves
\* lastFileSize, the timers and the subscribers as they are; a callback that
\* then finds the growth reads from that same lastFileSize.
C18_FailedCycleNoEffect ==
    [][\A c \in Cycles :
          /\ (cyc[c].pc \in {"stat", "read"} /\ cyc'[c].pc = "idle")
                => /\ inbox' = inbox
                   /\ lastFileSize' = lastFileSize
                   /\ timers' = timers /\ debounceTimeout' = debounceTimeout
                   /\ status' = status /\ clients' = clients
                   /\ \A d \in Cycles \ {c} : cyc'[d] = cyc[d]
          /\ (cyc[c].pc = "stat" /\ cyc'[c].pc = "read")
                => cyc'[c].from = lastFileSize /\ lastFileSize' = lastFileSize]_vars

\* two callbacks have started; one has ended without recording the size,
\* hence by a failure, and the other reads the same delta from the same
\* offset, with a subscriber open that has received no broadcast
C18_Witness ==
    /\ fires = 2 /\ Cardinality(InFlight) = 1
    /\ lastFileSize = 2
    /\ \E c \in Cycles : cyc[c].pc = "read" /\ cyc[c].from = 2
    /\ status[1] = "open"
    /\ \A i \in 1..Len(inbox[1]) : inbox[1][i].via = "catchup"

(***************************************************************************)
(* Claims about the file handle of getLastNLines.                          *)
(***************************************************************************)
\* C19: getLastNLines never closes its handle twice and never before its
\* promise settles; when the promise has settled no handle is open, and the
\* handle that fs.open delivered has been closed exactly once (a call whose
\* fs.open failed has no handle and rejects).
C19_HandleReleased ==
    call.fn = "getLastNLines" =>
        /\ call.r.closes <= 1
        /\ call.r.fd = "closed" <=> call.r.closes = 1
        /\ call.r.fd = "closed" => call.r.pc = "done"
        /\ call.r.pc = "done" => call.r.fd # "open"
        /\ (call.r.pc = "done" /\ call.r.fd = "none") => call.r.out = "error"
        /\ call.r.pc \in {"fstat", "read"} => call.r.fd = "open"

\* a call that rejected after fs.open had succeeded, its handle closed
C19_Witness ==
    /\ call.fn = "getLastNLines"
    /\ call.r.pc = "done" /\ call.r.out = "error"
    /\ call.r.fd = "closed" /\ call.r.closes = 1

\* C20: a step of a subscriber's connection handler or of its catch-up read
\* leaves the file, lastFileSize, the debounce timer, the read cycles and the
\* startup stat as they are, and changes neither the messages nor the read
\* of any other subscriber.
C20_CatchUpFrame ==
    [][\A s \in Subs :
          rd'[s] # rd[s] =>
              /\ file' = file /\ lastFileSize' = lastFileSize
              /\ startup' = startup
              /\ debounceTimeout' = debounceTimeout /\ timers' = timers
              /\ cyc' = cyc
              /\ \A t \in Subs \ {s} : inbox'[t] = inbox[t] /\ rd'[t] = rd[t]]_vars

\* two subscribers are open, the catch-up of one has resolved and that of
\* the other has rejected, and each holds its own message only
C20_Witness ==
    /\ startup = "done" /\ lastFileSize = Len(file)
    /\ \E s, t \in Subs :
          /\ status[s] = "open" /\ status[t] = "open"
          /\ rd[s].out = "lines" /\ rd[t].out = "error"
          /\ inbox[s] = <<LinesMsg("catchup", rd[s].res)>>
          /\ inbox[t] = <<ErrorMsg>>

(***************************************************************************)
(* Catch-up reads on a file the producer appends to and truncates while    *)
(* they run.  A callback that is pending and would complete without error  *)
(* is eventually delivered; errors may happen but need not.                *)
(***************************************************************************)
SettleInit == EngineRunning({<<>>, <<"a", NL>>}, {1}) /\ call = NoCall

SettleNext ==
    \/ Producer
    \/ \E k \in 0..MaxFile : Truncate(k)
    \/ Hub(BOOLEAN)

SpecSettle ==
    /\ SettleInit
    /\ [][SettleNext]_vars
    /\ \A s \in Subs :
          /\ WF_vars(CatchOpen(s, TRUE))
          /\ WF_vars(CatchFstat(s, TRUE))
          /\ WF_vars(CatchRead(s, TRUE))

\* C21: every call of getLastNLines (here with n = 10) eventually settles,
\* whatever the producer does to the file while the call runs.
C21_ReaderSettles ==
    \A s \in Subs : (rd[s].pc \in {"open", "fstat", "read"}) ~> (rd[s].pc = "done")

(***************************************************************************)
(* The startup race: the engine is started on a file that already holds    *)
(* StartFile, and its initial stat is pending while notifications, timer   *)
(* fires and connections go on.                                            *)
(***************************************************************************)
StartFile == <<"a", NL>>

RaceInit == EngineInit({StartFile}, {1}) /\ call = NoCall

RaceNext ==
    \/ Producer
    \/ \E ok \in BOOLEAN : StartupStat(ok)
    \/ Watcher({TRUE})
    \/ Hub({TRUE})

SpecRace == RaceInit /\ [][RaceNext]_vars

\* C22: a broadcast that reaches a subscriber is made of bytes that lie
\* after the content the file had when the engine started: the read cycle
\* that made it read from the size of that content or from further on.
C22_NoStartContent ==
    [][\A c \in Cycles : \A s \in Subs :
          (BroadcastStep(c) /\ Len(inbox'[s]) > Len(inbox[s]))
              => cyc[c].from >= Len(StartFile)]_vars

(***************************************************************************)
(* getLastNLines with different chunk sizes, on files that may hold a      *)
(* character encoded in two bytes.                                         *)
(***************************************************************************)
ChunkChars == {"a", NL, LeadByte, ContByte}

\* well-formed UTF-8: every lead byte is followed by its continuation byte,
\* and every continuation byte follows a lead byte
WellFormed(F) ==
    \A i \in 1..Len(F) :
        /\ F[i] = LeadByte => (i < Len(F) /\ F[i + 1] = ContByte)
        /\ F[i] = ContByte => (i > 1 /\ F[i - 1] = LeadByte)

ChunkFiles == {F \in SeqsUpTo(ChunkChars, MaxLen) : WellFormed(F)}

ChunkInit ==
    /\ EngineOff
    /\ \E F \in ChunkFiles, n \in 1..MaxN, size \in 1..MaxChunk :
          call = [fn |-> "getLastNLines", F |-> F, n |-> n, bufSize |-> size,
                  r |-> getLastNLines]

SpecChunk == ChunkInit /\ [][ReaderNext]_vars

\* getLastNLines(F, n) resolving with a chunk that holds the whole file: at
\* most one fs.read
wholeFileRead(F, n) ==
    LET size == Len(F) + 1
        r0 == fstatDone(openDone(getLastNLines, TRUE), F, n, size, TRUE)
    IN IF r0.pc = "done" THEN r0 ELSE readDone(r0, F, n, size, TRUE)

\* C23: whenever getLastNLines(F, n), n >= 1, resolves after reading in
\* chunks of c bytes, its lines are those it resolves with when one chunk
\* holds the whole file.
C23_ChunkIndependent ==
    ReaderResolved => call.r.res = wholeFileRead(call.F, call.n).res

====
